---- MODULE Spec2Model ----
(***************************************************************************)
(* Plutus conversation orchestration.                                      *)
(*                                                                         *)
(* SpecAdv  : one user's turns through AdvancedOrchestrator.process_message *)
(*            (fallback workflow), with the caller of test_full_integration *)
(*            storing the turn.                                            *)
(* SpecProd : requests through ProductionOrchestrator.process_financial_-   *)
(*            query with its three ResilientAgent units.                   *)
(* SpecMem  : turns of one user through MemoryAwareFinancialAgent objects   *)
(*            that share one MemoryManager database.                       *)
(* SpecCtx  : one user's context in the cache of ContextService.            *)
(* SpecStore: the conversations and user_insights tables of MemoryService.  *)
(* SpecBreaker: calls of the ResilientRiskAssessor with its circuit breaker. *)
(* SpecMetrics: several requests of the ProductionOrchestrator under way at *)
(* once and its execution_metrics.                                            *)
(* SpecRoute: the routing decisions of AdvancedOrchestrator and of           *)
(*            OrchestratorAgent as functions of the message.                *)
(***************************************************************************)
EXTENDS Integers, Sequences, FiniteSets, TLC

\* ------------------------------------------------------------------ bounds
MaxKeywords == 1      \* keywords of the routing table occurring in one message
MaxTurns == 2         \* turns of one conversation
MaxCalls == 2         \* process_message calls made on the memory-aware agents
MaxClock == 3         \* half hours that pass on the clock of the context service
MaxUpdates == 2       \* calls of update_context_from_conversation
MaxMonths == 4        \* 30-day months that pass on the clock of the memory service
MaxRouteKeywords == 2 \* keywords occurring in a message whose routing is analysed
MaxBreakerCalls == 7  \* execute_with_resilience calls made on the risk assessor
MaxIdleTicks == 2     \* half minutes counted since the last recorded failure
MaxIdleDays == 1      \* whole days counted since the last recorded failure
MaxRequests == 3      \* requests submitted to one ProductionOrchestrator

\* --------------------------------------------------------------- variables
VARIABLES
    pc,               \* position of the current turn in process_message
    turn,             \* number of turns completed
    user_message,     \* set of routing keywords found in message_lower, or NoneMsg
    routing_analysis, \* result of _analyze_conversation_routing
    core,             \* agent -> outcome of its _process_core_logic in this turn
    tasks,            \* agent -> what agent.process(state) gave back (gather slot)
    agent_results,    \* the agent_results list of _execute_fallback_workflow
    result,           \* what process_message gave to its caller
    memory            \* conversations table of MemoryService: one row per stored turn

advVars == <<pc, turn, user_message, routing_analysis, core, tasks,
             agent_results, result, memory>>

VARIABLES
    ppc,               \* position of the request in process_financial_query
    now,               \* time since the current phase began, in tenths of a second
    state,             \* the FinancialAnalysisState of the request
    exec,              \* unit -> the running execute_with_resilience call
    agent,             \* unit -> the metrics fields of the ResilientAgent object
    execution_metrics, \* the counters of ProductionOrchestrator
    final_response     \* what process_financial_query returned

prodVars == <<ppc, now, state, exec, agent, execution_metrics, final_response>>

VARIABLES
    user_profiles,        \* the user's row of table user_profiles
    current_user_profile, \* agent object -> its UserProfile object
    calls,                \* call number -> a process_message call on an agent
    conversation_turns,   \* the rows of table conversation_turns, oldest first
    overlapped            \* a call began while another one was under way

memVars == <<user_profiles, current_user_profile, calls, conversation_turns,
             overlapped>>

VARIABLES
    context_cache,       \* _context_cache[user_id], or NoContext
    cache_timestamp,     \* _cache_timestamps[user_id], or NoTimestamp
    financial_behavior,  \* the user's "financial_behavior" dict in the data service
    clock,               \* datetime.now(), in half hours
    updates,             \* calls of update_context_from_conversation made
    returned             \* what the last get_user_context gave back, and when

ctxVars == <<context_cache, cache_timestamp, financial_behavior, clock, updates,
             returned>>

VARIABLES
    conversations,  \* the rows of table conversations of MemoryService
    user_insights,  \* the rows of table user_insights
    utcnow,         \* datetime.utcnow(), in months of 30 days
    rows_affected   \* conn.total_changes of the last cleanup_old_data

storeVars == <<conversations, user_insights, utcnow, rows_affected>>

VARIABLES
    route_message,   \* the keywords in the message given to _analyze_conversation_routing
    route_analysis   \* the analysis it returned, NoRouting before the call

VARIABLES
    intent_message,  \* the keywords in the message given to OrchestratorAgent
    long_message,    \* len(user_message.split()) > 30
    classification,  \* what _classify_user_intent returned, NoClassification before
    agents_to_invoke, \* what _determine_agent_routing returned
    graph_node,      \* the node of the LangGraph workflow that runs next
    graph_results    \* agent types whose process the graph has called, in order

routeVars == <<route_message, route_analysis, intent_message, long_message,
               classification, agents_to_invoke, graph_node, graph_results>>

VARIABLES
    circuit_breaker, \* the circuit_breaker dict of the ResilientRiskAssessor
    idle,            \* datetime.now() - last_failure_time: whole days and half minutes
    rcalls,          \* slot -> an execute_with_resilience call on the risk assessor,
                     \* numbered by id
    calls_made       \* number of calls begun

breakerVars == <<circuit_breaker, idle, rcalls, calls_made>>

VARIABLES
    requests         \* request -> a process_financial_query coroutine

metricsVars == <<requests>>

vars == <<advVars, prodVars, memVars, ctxVars, storeVars, routeVars, breakerVars,
          metricsVars>>

\* ------------------------------------------------------- routing constants
\* a user_message that is not a string (None): it contains no keyword at all
NoneMsg == {"<None>"}
NoRouting == [selected_routing |-> "none", agents_to_run |-> <<>>,
              execution_strategy |-> "none", score10 |-> 0]

routing_patterns ==
    << [name |-> "financial_analysis",
        keywords |-> {"financial health", "net worth", "portfolio", "balance", "wealth score"},
        agents |-> <<"financial_analysis">>,
        priority |-> "high"],
       [name |-> "goal_planning",
        keywords |-> {"goal", "save for", "planning", "target", "want to"},
        agents |-> <<"goal_extraction", "recommendation">>,
        priority |-> "high"],
       [name |-> "risk_assessment",
        keywords |-> {"risk", "safe", "volatile", "protection", "conservative", "aggressive"},
        agents |-> <<"risk_assessment", "recommendation">>,
        priority |-> "medium"],
       [name |-> "investment_advice",
        keywords |-> {"invest", "stocks", "bonds", "portfolio", "allocation"},
        agents |-> <<"financial_analysis", "risk_assessment", "recommendation">>,
        priority |-> "high"],
       [name |-> "debt_management",
        keywords |-> {"debt", "loan", "pay off", "credit card"},
        agents |-> <<"financial_analysis", "risk_assessment", "recommendation">>,
        priority |-> "high"],
       [name |-> "comprehensive_analysis",
        keywords |-> {"advice", "recommendation", "what should", "help me"},
        agents |-> <<"financial_analysis", "goal_extraction", "risk_assessment", "recommendation">>,
        priority |-> "medium"] >>

AllKeywords == UNION {routing_patterns[i].keywords : i \in 1..Len(routing_patterns)}

RECURSIVE KeywordSets(_)
KeywordSets(n) ==
    IF n = 0 THEN {{}}
    ELSE LET smaller == KeywordSets(n - 1)
         IN  smaller \cup {m \cup {k} : m \in smaller, k \in AllKeywords}

\* a message is the set of routing keywords that occur in it
Messages == KeywordSets(MaxKeywords)

AgentNames == {"financial_analysis", "goal_extraction", "recommendation", "risk_assessment"}

\* _get_agent_by_name: the agent_map lookup; None for an unknown name
GetAgentByName(agent_name) ==
    IF agent_name \in AgentNames THEN agent_name ELSE "None"

\* a score without the priority weighting
PatternScoreUnweighted(pattern, message) ==
    Cardinality(pattern.keywords \cap message) * 10

\* score of one pattern, in tenths: matched keywords times 1.5 (high) or 1.2 (medium)
PatternScore10(pattern, message) ==
    LET score == Cardinality(pattern.keywords \cap message)
    IN  IF pattern.priority = "high" THEN score * 15
        ELSE IF pattern.priority = "medium" THEN score * 12
        ELSE score * 10

\* min instead of max: the first pattern with the smallest score
BestRoutingLowest(message) ==
    LET n == Len(routing_patterns)
        s(i) == PatternScore10(routing_patterns[i], message)
    IN  CHOOSE i \in 1..n :
            /\ \A j \in 1..n : s(i) <= s(j)
            /\ \A j \in 1..(i-1) : s(i) < s(j)

\* max(routing_scores.items(), key=score): the first pattern with the largest score
BestRouting(message) ==
    LET n == Len(routing_patterns)
        s(i) == PatternScore10(routing_patterns[i], message)
    IN  CHOOSE i \in 1..n :
            /\ \A j \in 1..n : s(j) <= s(i)
            /\ \A j \in 1..(i-1) : s(j) < s(i)

PatternIndex(name) ==
    CHOOSE i \in 1..Len(routing_patterns) : routing_patterns[i].name = name

\* a routing analysis without the default below the score of 1
AnalyzeConversationRoutingNoDefault(message) ==
    LET best == BestRouting(message)
        agents_to_run == routing_patterns[best].agents
    IN  [selected_routing |-> routing_patterns[best].name,
         agents_to_run |-> agents_to_run,
         execution_strategy |-> IF Len(agents_to_run) > 1 THEN "parallel" ELSE "single",
         score10 |-> PatternScore10(routing_patterns[best], message)]

AnalyzeConversationRouting(message) ==
    LET best == BestRouting(message)
        bestScore == PatternScore10(routing_patterns[best], message)
        \* score < 1
        chosen == IF bestScore < 10 THEN PatternIndex("comprehensive_analysis") ELSE best
        agents_to_run == routing_patterns[chosen].agents
    IN  [selected_routing |-> routing_patterns[chosen].name,
         agents_to_run |-> agents_to_run,
         execution_strategy |-> IF Len(agents_to_run) > 1 THEN "parallel" ELSE "single",
         score10 |-> PatternScore10(routing_patterns[chosen], message)]

\* --------------------------------------------------------- agent units
\* inputs of one unit's core logic: how it ends, the length of the response
\* text it writes and (risk assessment) the overall risk score it computes
ResponseLens == {0, 120}
RiskScores == {30, 50}

\* FinancialAnalysisAgent._process_core_logic has no handler of its own; the
\* three other agents catch their exceptions and return _create_error_response
CoreOutcomes(a) ==
    IF a = "financial_analysis" THEN {"ok", "raise"}
    ELSE {"ok", "error_response", "raise"}

NoResult ==
    [kind |-> "none", agent_type |-> "none", success |-> FALSE, response |-> "",
     response_len |-> 0, analysis |-> FALSE, overall_risk_score |-> 0]

\* the dict _process_core_logic returns (kind "dict") or the exception it raises
ProcessCoreLogic(a, outcome, len, score) ==
    IF outcome = "raise"
    THEN [NoResult EXCEPT !.kind = "exception", !.agent_type = a]
    ELSE IF outcome = "error_response"
    THEN \* _create_error_response: success False, a fixed text of 68 to 75 characters
         [kind |-> "dict", agent_type |-> a, success |-> FALSE,
          response |-> "issue", response_len |-> 70, analysis |-> FALSE,
          overall_risk_score |-> 0]
    ELSE [kind |-> "dict", agent_type |-> a, success |-> TRUE,
          response |-> IF len = 0 THEN "" ELSE a, response_len |-> len,
          analysis |-> TRUE,
          overall_risk_score |-> IF a = "risk_assessment" THEN score ELSE 0]

\* process without its except clause: the exception of the core logic leaves it
ProcessReraises(a, outcome, len, score) ==
    LET r == ProcessCoreLogic(a, outcome, len, score)
    IN  IF r.kind = "exception" THEN r ELSE [r EXCEPT !.success = TRUE]

\* BaseAgent.process: result.update({..., "success": True}) on return,
\* the error result on an exception
Process(a, outcome, len, score) ==
    LET r == ProcessCoreLogic(a, outcome, len, score)
    IN  IF r.kind = "exception"
        THEN [kind |-> "dict", agent_type |-> a, success |-> FALSE,
              response |-> "error", response_len |-> 54, analysis |-> FALSE,
              overall_risk_score |-> 0]
        ELSE [r EXCEPT !.success = TRUE]

\* ------------------------------------------------------------ synthesis
RECURSIVE SuccessfulResults(_)
\* [r for r in agent_results if r.get("success")]
SuccessfulResults(results) ==
    IF results = <<>> THEN <<>>
    ELSE IF results[1].success
         THEN <<results[1]>> \o SuccessfulResults(Tail(results))
         ELSE SuccessfulResults(Tail(results))

\* calculate_priority_score, in tenths
CalculatePriorityScore(r) ==
    (CASE r.agent_type = "financial_analysis" -> 10
       [] r.agent_type = "recommendation" -> 9
       [] r.agent_type = "goal_extraction" -> 8
       [] r.agent_type = "risk_assessment" -> 7
       [] OTHER -> 5)
    + (IF r.response_len > 100 THEN 3 ELSE IF r.response_len > 50 THEN 1 ELSE 0)
    + (IF r.analysis THEN 2 ELSE 0)
    + (IF r.success THEN 1 ELSE 0)

RECURSIVE InsertByPriority(_, _)
InsertByPriority(r, sorted) ==
    IF sorted = <<>> THEN <<r>>
    ELSE IF CalculatePriorityScore(sorted[1]) >= CalculatePriorityScore(r)
         THEN <<sorted[1]>> \o InsertByPriority(r, Tail(sorted))
         ELSE <<r>> \o sorted

RECURSIVE PrioritizeAgentResults(_)
\* sorted(agent_results, key=calculate_priority_score, reverse=True), stable
PrioritizeAgentResults(results) ==
    IF results = <<>> THEN <<>>
    ELSE LET n == Len(results)
         IN  InsertByPriority(results[n], PrioritizeAgentResults(SubSeq(results, 1, n - 1)))

\* next((r for r in prioritized_results if r.get("agent_type") == t), None)
FirstOfType(results, t) ==
    LET idx == {i \in 1..Len(results) : results[i].agent_type = t}
    IN  IF idx = {} THEN NoResult
        ELSE results[CHOOSE i \in idx : \A j \in idx : i <= j]

\* the part one agent type contributes to the response, <<>> when it is skipped
ResponsePart(prioritized, t) ==
    LET r == FirstOfType(prioritized, t)
    IN  IF r.kind = "none" \/ r.response = "" THEN <<>>
        ELSE IF t = "risk_assessment" /\ ~(r.overall_risk_score > 40) THEN <<>>
        ELSE << <<r.agent_type, r.response>> >>

Apology == << <<"orchestrator", "apology">> >>
Summary == << <<"orchestrator", "summary">> >>
Closing == << <<"orchestrator", "closing">> >>

\* a synthesis that appends the parts by descending base priority of the
\* agent types (recommendation before goal extraction and risk assessment)
SynthesizeInPriorityOrder(results) ==
    LET successful_results == SuccessfulResults(results)
        prioritized_results == PrioritizeAgentResults(successful_results)
        parts == ResponsePart(prioritized_results, "financial_analysis")
                 \o ResponsePart(prioritized_results, "recommendation")
                 \o ResponsePart(prioritized_results, "goal_extraction")
                 \o ResponsePart(prioritized_results, "risk_assessment")
        parts2 == IF parts = <<>> THEN Summary ELSE parts
    IN  IF successful_results = <<>> THEN Apology
        ELSE IF Len(successful_results) > 1 THEN parts2 \o Closing
        ELSE parts2

\* _synthesize_agent_results: the response text as the list of its parts
SynthesizeAgentResults(results) ==
    LET successful_results == SuccessfulResults(results)
        prioritized_results == PrioritizeAgentResults(successful_results)
        parts == ResponsePart(prioritized_results, "financial_analysis")
                 \o ResponsePart(prioritized_results, "goal_extraction")
                 \o ResponsePart(prioritized_results, "risk_assessment")
                 \o ResponsePart(prioritized_results, "recommendation")
        parts2 == IF parts = <<>> THEN Summary ELSE parts
    IN  IF successful_results = <<>> THEN Apology
        ELSE IF Len(successful_results) > 1 THEN parts2 \o Closing
        ELSE parts2

RECURSIVE AgentTypes(_)
AgentTypes(results) ==
    IF results = <<>> THEN <<>> ELSE <<results[1].agent_type>> \o AgentTypes(Tail(results))

\* ------------------------------------------------------------ responses
NoResponse ==
    [kind |-> "none", success |-> FALSE, response |-> <<>>, workflow_type |-> "none",
     agents_used |-> <<>>, agents_run |-> 0, successful_agents |-> 0,
     agent_results |-> <<>>]

\* AdvancedOrchestrator._create_error_response
CreateErrorResponse ==
    [kind |-> "return", success |-> FALSE,
     response |-> << <<"orchestrator", "issue">> >>, workflow_type |-> "error",
     agents_used |-> <<>>, agents_run |-> 0, successful_agents |-> 0,
     agent_results |-> <<>>]

\* an exception that leaves process_message
Propagate == [NoResponse EXCEPT !.kind = "raise"]

\* the return value of _execute_fallback_workflow after the agents have run
FallbackWorkflowResult(results) ==
    [kind |-> "return", success |-> TRUE,
     response |-> SynthesizeAgentResults(results), workflow_type |-> "fallback",
     agents_used |-> AgentTypes(SuccessfulResults(results)),
     agents_run |-> Len(results),
     successful_agents |-> Len(SuccessfulResults(results)),
     agent_results |-> results]

\* process_message without its except clause
ProcessMessageReraises == Propagate

\* the except clauses of process_message and _execute_fallback_workflow
ProcessMessageExcept == CreateErrorResponse

FallbackWorkflowExcept == CreateErrorResponse

\* ------------------------------------------------- AdvancedOrchestrator turn
AgentsToRun == routing_analysis.agents_to_run

InRouting(a) == \E i \in 1..Len(AgentsToRun) : AgentsToRun[i] = a

AllAgentsDone == \A i \in 1..Len(AgentsToRun) : tasks[AgentsToRun[i]].kind # "none"

RECURSIVE GatherResults(_, _)
\* the loop over the results of asyncio.gather(*tasks, return_exceptions=True):
\* an exception is logged and left out, a dict is appended
GatherResults(agents, slots) ==
    IF agents = <<>> THEN <<>>
    ELSE IF slots[agents[1]].kind = "dict"
         THEN <<slots[agents[1]]>> \o GatherResults(Tail(agents), slots)
         ELSE GatherResults(Tail(agents), slots)

\* a caller that stores every response it gets
ShouldStoreAlways(response) == response.kind = "return"

\* test_full_integration stores the turn if response.get("success")
ShouldStore(response) == response.kind = "return" /\ response.success

AdvInit ==
    /\ pc = "idle"
    /\ turn = 0
    /\ user_message = {}
    /\ routing_analysis = NoRouting
    /\ core = [a \in AgentNames |-> "none"]
    /\ tasks = [a \in AgentNames |-> NoResult]
    /\ agent_results = <<>>
    /\ result = NoResponse
    /\ memory = <<>>

\* the caller hands a message to process_message
ReceiveMessage ==
    /\ pc = "idle"
    /\ turn < MaxTurns
    /\ \E m \in Messages \cup {NoneMsg} : user_message' = m
    /\ pc' = "build"
    /\ routing_analysis' = NoRouting
    /\ core' = [a \in AgentNames |-> "none"]
    /\ tasks' = [a \in AgentNames |-> NoResult]
    /\ agent_results' = <<>>
    /\ result' = NoResponse
    /\ UNCHANGED <<turn, memory>>

\* _build_conversation_state: awaits the context service, which may raise
BuildConversationState ==
    /\ pc = "build"
    /\ \E fault \in BOOLEAN :
         IF fault
         THEN /\ result' = ProcessMessageExcept
              /\ pc' = "returned"
         ELSE /\ pc' = "route"
              /\ UNCHANGED result
    /\ UNCHANGED <<turn, user_message, routing_analysis, core, tasks, agent_results, memory>>

\* _analyze_conversation_routing: user_message.lower() raises on None
AnalyzeRouting ==
    /\ pc = "route"
    /\ IF user_message = NoneMsg
       THEN /\ result' = ProcessMessageExcept
            /\ pc' = "returned"
            /\ UNCHANGED routing_analysis
       ELSE /\ routing_analysis' = AnalyzeConversationRouting(user_message)
            /\ pc' = "execute"
            /\ UNCHANGED result
    /\ UNCHANGED <<turn, user_message, core, tasks, agent_results, memory>>

\* one agent.process(state) of the parallel branch runs to its end
AgentProcessParallel(a) ==
    /\ pc = "execute"
    /\ routing_analysis.execution_strategy = "parallel"
    /\ InRouting(a)
    /\ GetAgentByName(a) # "None"
    /\ tasks[a].kind = "none"
    /\ \E outcome \in CoreOutcomes(a), len \in ResponseLens, score \in RiskScores :
         /\ core' = [core EXCEPT ![a] = outcome]
         /\ tasks' = [tasks EXCEPT ![a] = Process(a, outcome, len, score)]
    /\ UNCHANGED <<pc, turn, user_message, routing_analysis, agent_results, result, memory>>

\* the sequential branch: the next agent of agents_to_run is awaited and its
\* result appended; an exception leaves the loop for the except clause
AgentProcessSequential(a) ==
    /\ pc = "execute"
    /\ routing_analysis.execution_strategy # "parallel"
    /\ Len(agent_results) < Len(AgentsToRun)
    /\ a = AgentsToRun[Len(agent_results) + 1]
    /\ GetAgentByName(a) # "None"
    /\ tasks[a].kind = "none"
    /\ \E outcome \in CoreOutcomes(a), len \in ResponseLens, score \in RiskScores :
         LET r == Process(a, outcome, len, score)
         IN  /\ core' = [core EXCEPT ![a] = outcome]
             /\ tasks' = [tasks EXCEPT ![a] = r]
             /\ IF r.kind = "dict"
                THEN /\ agent_results' = Append(agent_results, r)
                     /\ UNCHANGED <<pc, result>>
                ELSE /\ result' = FallbackWorkflowExcept
                     /\ pc' = "returned"
                     /\ UNCHANGED agent_results
    /\ UNCHANGED <<turn, user_message, routing_analysis, memory>>

\* all agents are done: the gathered results are collected and synthesized and
\* process_message returns; a fault in the synthesis reaches the except clause
SynthesizeAndReturn ==
    /\ pc = "execute"
    /\ AllAgentsDone
    /\ LET results == IF routing_analysis.execution_strategy = "parallel"
                      THEN GatherResults(AgentsToRun, tasks)
                      ELSE agent_results
       IN  /\ agent_results' = results
           /\ \E fault \in BOOLEAN :
                result' = IF fault THEN FallbackWorkflowExcept
                          ELSE FallbackWorkflowResult(results)
    /\ pc' = "returned"
    /\ UNCHANGED <<turn, user_message, routing_analysis, core, tasks, memory>>

\* the caller (test_full_integration) stores the conversation of a successful
\* response and goes on to the next message
StoreConversation ==
    /\ pc = "returned"
    /\ result.kind = "return"
    /\ memory' = IF ShouldStore(result)
                 THEN Append(memory, [turn |-> turn + 1,
                                      workflow_type |-> result.workflow_type])
                 ELSE memory
    /\ turn' = turn + 1
    /\ pc' = "idle"
    \* the locals of process_message are gone; the caller keeps the response
    /\ routing_analysis' = NoRouting
    /\ core' = [a \in AgentNames |-> "none"]
    /\ tasks' = [a \in AgentNames |-> NoResult]
    /\ agent_results' = <<>>
    /\ user_message' = {}
    /\ UNCHANGED result

AdvNext ==
    \/ ReceiveMessage
    \/ BuildConversationState
    \/ AnalyzeRouting
    \/ \E a \in AgentNames : AgentProcessParallel(a)
    \/ \E a \in AgentNames : AgentProcessSequential(a)
    \/ SynthesizeAndReturn
    \/ StoreConversation


\* ================================================= ProductionOrchestrator
Units == {"financial_analyzer", "risk_assessor", "recommendation_engine"}

AnalysisUnits == {"financial_analyzer", "risk_assessor"}

\* the constructor arguments of the three resilient agents (timeouts in tenths
\* of a second)
max_retries ==
    [financial_analyzer |-> 3, risk_assessor |-> 2, recommendation_engine |-> 2]

timeout ==
    [financial_analyzer |-> 150, risk_assessor |-> 100, recommendation_engine |-> 80]

\* asyncio.wait_for(asyncio.gather(*tasks), timeout=20.0)
PhaseTimeout == 200

\* the asyncio.sleep that stands for the work of each core logic
WorkTime ==
    [financial_analyzer |-> 15, risk_assessor |-> 8, recommendation_engine |-> 6]

\* when in its core logic a unit raises: the analyzer and the engine before
\* their work, the risk assessor after it
RaiseTime ==
    [financial_analyzer |-> 0, risk_assessor |-> 8, recommendation_engine |-> 0]

\* random.uniform(0.1, 0.5): the two ends of the range
Jitters == {1, 5}

\* the exception messages a core logic raises
ErrorMessages(u) ==
    CASE u = "financial_analyzer" ->
            {"Rate limit exceeded", "Network connection failed", "Insufficient memory"}
      [] u = "risk_assessor" -> {"Risk assessment service temporarily unavailable"}
      [] u = "recommendation_engine" -> {"Invalid input data"}

\* the words _classify_error looks for that occur in str(exception).lower()
Triggers(msg) ==
    CASE msg = "Rate limit exceeded" -> {"rate limit"}
      [] msg = "Network connection failed" -> {"network", "connection"}
      [] msg = "Insufficient memory" -> {"memory"}
      [] OTHER -> {}

ClassifyError(msg) ==
    LET t == Triggers(msg)
    IN  IF "timeout" \in t THEN "api_timeout"
        ELSE IF "rate limit" \in t \/ "429" \in t THEN "api_rate_limit"
        ELSE IF "quota" \in t \/ "402" \in t THEN "api_quota_exceeded"
        ELSE IF "network" \in t \/ "connection" \in t THEN "network_error"
        ELSE IF "memory" \in t THEN "memory_error"
        ELSE IF "permission" \in t \/ "unauthorized" \in t THEN "permission_error"
        ELSE "agent_crash"

recoverable_errors == {"api_timeout", "network_error", "api_rate_limit"}

\* every error is taken for a recoverable one
IsRecoverableErrorAlways(msg) == TRUE

IsRecoverableError(msg) == ClassifyError(msg) \in recoverable_errors

NoError ==
    [error_type |-> "none", agent_name |-> "none", retry_count |-> 0,
     is_recoverable |-> TRUE]

\* the AgentError built in the two except clauses of execute_with_resilience
TimeoutError(u, attempt) ==
    [error_type |-> "agent_timeout", agent_name |-> u, retry_count |-> attempt,
     is_recoverable |-> TRUE]

RaisedError(u, attempt, msg) ==
    [error_type |-> ClassifyError(msg), agent_name |-> u, retry_count |-> attempt,
     is_recoverable |-> IsRecoverableError(msg)]

\* what one attempt of the core logic does: it returns, it is still running
\* when the unit's timeout expires, or it raises
Outcomes(u) ==
    {[kind |-> "ok", msg |-> ""], [kind |-> "timeout", msg |-> ""]}
        \cup {[kind |-> "raise", msg |-> m] : m \in ErrorMessages(u)}

NoOutcome == [kind |-> "none", msg |-> ""]

Duration(u, o) ==
    CASE o.kind = "ok" -> WorkTime[u]
      [] o.kind = "timeout" -> timeout[u]
      [] OTHER -> RaiseTime[u]

NoUnitResult == [kind |-> "none", success |-> FALSE, fallback |-> FALSE, error |-> "none"]

CoreResult == [kind |-> "dict", success |-> TRUE, fallback |-> FALSE, error |-> "none"]

\* the dict _get_fallback_result returns
FallbackResult(error) ==
    [kind |-> "dict", success |-> FALSE, fallback |-> TRUE,
     error |-> IF error = NoError THEN "unknown" ELSE error.error_type]

IdleExec ==
    [st |-> "idle", attempt |-> 0, due |-> 0, pending |-> NoOutcome,
     core_runs |-> 0, waits |-> 0, result |-> NoUnitResult]

CreatedExec == [IdleExec EXCEPT !.st = "created"]

\* FinancialAnalysisState as process_financial_query builds it; confidence_score
\* in eighths
InitialState ==
    [user_question |-> "question", account_balances |-> "balances",
     financial_summary |-> "None", risk_assessment |-> "None",
     recommendations |-> <<>>, errors |-> <<>>, failed_agents |-> <<>>,
     fallback_used |-> FALSE, analysis_complete |-> FALSE, confidence_score |-> 8]

\* an error handling that keeps only the latest error
HandleErrorStateKeepsLast(st, error) == [st EXCEPT !.errors = <<error>>]

\* _handle_error: state["errors"].append(error)
HandleErrorState(st, error) == [st EXCEPT !.errors = Append(@, error)]

\* a fallback that writes a placeholder analysis into the state
GetFallbackStateWritesSummary(st, u) ==
    [st EXCEPT !.fallback_used = TRUE,
               !.failed_agents = Append(@, u),
               !.confidence_score = @ \div 2,
               !.financial_summary = "simplified"]

\* _get_fallback_result: the changes it makes to the state
GetFallbackState(st, u) ==
    [st EXCEPT !.fallback_used = TRUE,
               !.failed_agents = Append(@, u),
               !.confidence_score = @ \div 2]

\* a phase timeout that leaves the state as it is
AnalysisTimeoutStateNoFlag(st) == st

\* the except asyncio.TimeoutError clause of _execute_analysis_phase
AnalysisTimeoutState(st) == [st EXCEPT !.fallback_used = TRUE]

\* the comparison off by one
ExhaustedLate(u, attempt) == attempt = max_retries[u] + 1

\* if attempt == self.max_retries
Exhausted(u, attempt) == attempt = max_retries[u]

\* base_delay = 2 ** attempt, in tenths of a second
BaseDelay(attempt) == (2 ^ attempt) * 10

NoProdResponse ==
    [kind |-> "none", success |-> FALSE, analysis_complete |-> FALSE,
     confidence_score |-> 0, financial_analysis |-> FALSE, risk_assessment |-> FALSE,
     recommendations |-> FALSE, errors |-> <<>>, notice |-> FALSE, degraded |-> FALSE]

\* a response marked degraded only when an agent is listed as failed
CompileFinalResponseFailedAgents(st) ==
    [kind |-> "return", success |-> TRUE,
     analysis_complete |-> st.analysis_complete,
     confidence_score |-> st.confidence_score,
     financial_analysis |-> st.financial_summary # "None",
     risk_assessment |-> st.risk_assessment # "None",
     recommendations |-> st.recommendations # <<>>,
     errors |-> st.errors,
     notice |-> st.failed_agents # <<>>,
     degraded |-> st.failed_agents # <<>>]

\* _compile_final_response; an absent key is FALSE
CompileFinalResponse(st) ==
    [kind |-> "return", success |-> TRUE,
     analysis_complete |-> st.analysis_complete,
     confidence_score |-> st.confidence_score,
     financial_analysis |-> st.financial_summary # "None",
     risk_assessment |-> st.risk_assessment # "None",
     recommendations |-> st.recommendations # <<>>,
     errors |-> st.errors,
     notice |-> st.fallback_used,
     degraded |-> st.fallback_used]

Active(u) == exec[u].st \in {"running", "backoff"}

NoneCreated == \A u \in Units : exec[u].st # "created"

\* u holds the earliest pending event of the phase
IsNext(u) ==
    /\ Active(u)
    /\ NoneCreated
    /\ \A v \in Units : Active(v) => exec[u].due <= exec[v].due
    /\ ppc = "analysis" => exec[u].due <= PhaseTimeout

\* an attempt of the core logic begins at time t
StartAttempt(e, u, t, o) ==
    [e EXCEPT !.st = "running", !.pending = o, !.due = t + Duration(u, o),
              !.core_runs = @ + 1]

ProdInit ==
    /\ ppc = "idle"
    /\ now = 0
    /\ state = InitialState
    /\ exec = [u \in Units |-> IdleExec]
    /\ agent = [u \in Units |-> [call_count |-> 0, error_count |-> 0, last_error |-> NoError]]
    /\ execution_metrics = [total_requests |-> 0, successful_requests |-> 0,
                            partial_failures |-> 0, total_failures |-> 0]
    /\ final_response = NoProdResponse

\* process_financial_query up to the gather of the analysis phase
ProcessFinancialQuery ==
    /\ ppc = "idle"
    /\ execution_metrics' = [execution_metrics EXCEPT !.total_requests = @ + 1]
    /\ state' = InitialState
    /\ exec' = [u \in Units |-> IF u \in AnalysisUnits THEN CreatedExec ELSE IdleExec]
    /\ ppc' = "analysis"
    /\ now' = 0
    /\ final_response' = NoProdResponse
    /\ UNCHANGED agent

\* execute_with_resilience begins: call_count += 1 and the first attempt
UnitStart(u) ==
    /\ ppc \in {"analysis", "recommendation"}
    /\ exec[u].st = "created"
    /\ agent' = [agent EXCEPT ![u].call_count = @ + 1]
    /\ \E o \in Outcomes(u) :
         exec' = [exec EXCEPT ![u] = StartAttempt(@, u, now, o)]
    /\ UNCHANGED <<ppc, now, state, execution_metrics, final_response>>

\* the attempt returns the result of the core logic
AttemptSucceeds(u) ==
    /\ IsNext(u)
    /\ exec[u].st = "running"
    /\ exec[u].pending.kind = "ok"
    /\ now' = exec[u].due
    /\ exec' = [exec EXCEPT ![u].st = "done", ![u].result = CoreResult]
    /\ UNCHANGED <<ppc, state, agent, execution_metrics, final_response>>

\* the two except clauses: _handle_error, then the fallback result or the wait
AttemptFailed(u, error) ==
    /\ now' = exec[u].due
    /\ agent' = [agent EXCEPT ![u].error_count = @ + 1, ![u].last_error = error]
    /\ IF ~error.is_recoverable \/ Exhausted(u, exec[u].attempt)
       THEN /\ state' = GetFallbackState(HandleErrorState(state, error), u)
            /\ exec' = [exec EXCEPT ![u].st = "done", ![u].result = FallbackResult(error)]
       ELSE /\ state' = HandleErrorState(state, error)
            /\ \E jitter \in Jitters :
                 exec' = [exec EXCEPT ![u].st = "backoff",
                                      ![u].waits = @ + 1,
                                      ![u].due = exec[u].due + BaseDelay(exec[u].attempt) + jitter]
    /\ UNCHANGED <<ppc, execution_metrics, final_response>>

\* asyncio.wait_for cancels the core logic at the unit's timeout
AttemptTimesOut(u) ==
    /\ IsNext(u)
    /\ exec[u].st = "running"
    /\ exec[u].pending.kind = "timeout"
    /\ AttemptFailed(u, TimeoutError(u, exec[u].attempt))

\* the core logic raises an exception
AttemptRaises(u) ==
    /\ IsNext(u)
    /\ exec[u].st = "running"
    /\ exec[u].pending.kind = "raise"
    /\ AttemptFailed(u, RaisedError(u, exec[u].attempt, exec[u].pending.msg))

\* _wait_before_retry is over: the next pass of the for loop, or the fallback
\* result after the loop when range(max_retries + 1) is used up
RetryAfterWait(u) ==
    /\ IsNext(u)
    /\ exec[u].st = "backoff"
    /\ now' = exec[u].due
    /\ IF exec[u].attempt + 1 <= max_retries[u]
       THEN /\ \E o \in Outcomes(u) :
                 exec' = [exec EXCEPT ![u] =
                            StartAttempt([@ EXCEPT !.attempt = @ + 1], u, exec[u].due, o)]
            /\ UNCHANGED state
       ELSE /\ state' = GetFallbackState(state, u)
            /\ exec' = [exec EXCEPT ![u].st = "done", ![u].result = FallbackResult(NoError)]
    /\ UNCHANGED <<ppc, agent, execution_metrics, final_response>>

\* both analysis units returned in time: _execute_analysis_phase stores their
\* successful results and the recommendation phase begins
AnalysisPhaseDone ==
    /\ ppc = "analysis"
    /\ \A u \in AnalysisUnits : exec[u].st = "done"
    /\ state' = [state EXCEPT
                   !.financial_summary =
                       IF exec["financial_analyzer"].result.success THEN "analysis" ELSE @,
                   !.risk_assessment =
                       IF exec["risk_assessor"].result.success THEN "Risk Level" ELSE @]
    /\ exec' = [exec EXCEPT !["recommendation_engine"] = CreatedExec]
    /\ ppc' = "recommendation"
    /\ now' = 0
    /\ UNCHANGED <<agent, execution_metrics, final_response>>

\* the 20 seconds of the analysis phase are over before both units returned:
\* the gather and the units still running are cancelled, the results are
\* dropped and the recommendation phase begins
AnalysisPhaseTimeout ==
    /\ ppc = "analysis"
    /\ NoneCreated
    /\ \E u \in AnalysisUnits : Active(u)
    /\ \A u \in AnalysisUnits : Active(u) => exec[u].due >= PhaseTimeout
    /\ state' = AnalysisTimeoutState(state)
    /\ exec' = [u \in Units |->
                  IF u = "recommendation_engine" THEN CreatedExec
                  ELSE IF Active(u) THEN [exec[u] EXCEPT !.st = "cancelled"]
                  ELSE exec[u]]
    /\ ppc' = "recommendation"
    /\ now' = 0
    /\ UNCHANGED <<agent, execution_metrics, final_response>>

\* the recommendation engine returned: _execute_recommendation_phase stores its
\* recommendations, _compile_final_response builds the response, the metrics
\* are updated and process_financial_query returns
RecommendationPhaseDone ==
    /\ ppc = "recommendation"
    /\ exec["recommendation_engine"].st = "done"
    /\ LET ok == exec["recommendation_engine"].result.success
           st == [state EXCEPT
                    !.recommendations = IF ok THEN <<"recommendation">> ELSE @,
                    !.analysis_complete = IF ok THEN TRUE ELSE @]
       IN  /\ state' = st
           /\ final_response' = CompileFinalResponse(st)
           /\ execution_metrics' =
                  IF st.failed_agents # <<>>
                  THEN [execution_metrics EXCEPT !.partial_failures = @ + 1]
                  ELSE [execution_metrics EXCEPT !.successful_requests = @ + 1]
    /\ ppc' = "done"
    /\ UNCHANGED <<now, exec, agent>>

ProdNext ==
    \/ ProcessFinancialQuery
    \/ \E u \in Units : UnitStart(u)
    \/ \E u \in Units : AttemptSucceeds(u)
    \/ \E u \in Units : AttemptTimesOut(u)
    \/ \E u \in Units : AttemptRaises(u)
    \/ \E u \in Units : RetryAfterWait(u)
    \/ AnalysisPhaseDone
    \/ AnalysisPhaseTimeout
    \/ RecommendationPhaseDone


\* ============================================ MemoryAwareFinancialAgent
\* the agent objects built on the one MemoryManager
MemAgents == {"agent_1", "agent_2"}

CallIds == 1..MaxCalls

\* user messages, each named by the phrase of it that the agent looks for
MemMessages == {"conservative", "aggressive", "new to investing", "budget"}

\* no row for the user in user_profiles, no profile object in the agent
NoProfile ==
    [exists |-> FALSE, risk_tolerance |-> "None", investment_experience |-> "None",
     common_question_types |-> <<>>]

\* the profile get_or_create_user_profile creates for a new user
NewProfile == [NoProfile EXCEPT !.exists = TRUE]

\* extract_topic
ExtractTopic(msg) ==
    IF msg = "new to investing" THEN "investment strategy"
    ELSE IF msg = "budget" THEN "budgeting"
    ELSE "your financial planning"

\* the risk tolerance update_user_profile_from_conversation reads in a message
RiskToleranceIn(msg) ==
    IF msg = "conservative" THEN "conservative"
    ELSE IF msg = "aggressive" THEN "aggressive"
    ELSE "None"

\* the investment experience it reads in a message
ExperienceIn(msg) == IF msg = "new to investing" THEN "beginner" ELSE "None"

InSeq(x, seq) == \E i \in 1..Len(seq) : seq[i] = x

\* update_user_profile_from_conversation: the changes to the profile object
UpdateUserProfile(profile, msg) ==
    [profile EXCEPT
        !.risk_tolerance = IF RiskToleranceIn(msg) # "None" THEN RiskToleranceIn(msg) ELSE @,
        !.investment_experience = IF ExperienceIn(msg) # "None" THEN ExperienceIn(msg) ELSE @,
        !.common_question_types =
            IF InSeq(ExtractTopic(msg), @) THEN @ ELSE Append(@, ExtractTopic(msg))]

\* save_user_profile: INSERT OR REPLACE of the whole row from the profile object
SaveUserProfile(profile) == profile

\* an update that saves the profile a second time
SavesPerUpdateTwice(n) == n + 2

\* update_user_profile_from_conversation calls save_user_profile once
SavesPerUpdate(n) == n + 1

NoCall == [st |-> "idle", agent |-> "none", msg |-> "none", saves |-> 0]

UnderWay(c) == calls[c].st = "analysing"

MemInit ==
    /\ user_profiles = NoProfile
    /\ current_user_profile = [a \in MemAgents |-> NoProfile]
    /\ calls = [c \in CallIds |-> NoCall]
    /\ conversation_turns = <<>>
    /\ overlapped = FALSE

\* start_conversation: the agent loads the user's profile from the database,
\* creating and saving it for a new user
StartConversation(a) ==
    /\ LET profile == IF user_profiles.exists THEN user_profiles ELSE NewProfile
       IN  /\ user_profiles' = SaveUserProfile(profile)
           /\ current_user_profile' = [current_user_profile EXCEPT ![a] = profile]
    /\ UNCHANGED <<calls, conversation_turns, overlapped>>

\* process_message up to its asyncio.sleep: history and context are read
ProcessMessageBegin(c, a, msg) ==
    /\ calls[c].st = "idle"
    /\ \A d \in CallIds : d < c => calls[d].st # "idle"
    /\ current_user_profile[a].exists
    /\ calls' = [calls EXCEPT ![c] = [st |-> "analysing", agent |-> a, msg |-> msg, saves |-> 0]]
    /\ overlapped' = (overlapped \/ \E d \in CallIds : UnderWay(d))
    /\ UNCHANGED <<user_profiles, current_user_profile, conversation_turns>>

\* process_message after the sleep: the response, the profile update with its
\* save, and the conversation turn
ProcessMessageFinish(c) ==
    /\ UnderWay(c)
    /\ LET a == calls[c].agent
           profile == UpdateUserProfile(current_user_profile[a], calls[c].msg)
       IN  /\ current_user_profile' = [current_user_profile EXCEPT ![a] = profile]
           /\ user_profiles' = SaveUserProfile(profile)
    /\ calls' = [calls EXCEPT ![c].st = "done", ![c].saves = SavesPerUpdate(@)]
    /\ conversation_turns' = Append(conversation_turns, [id |-> c, user_message |-> calls[c].msg])
    /\ UNCHANGED overlapped

MemNext ==
    \/ \E a \in MemAgents : StartConversation(a)
    \/ \E c \in CallIds, a \in MemAgents, msg \in MemMessages : ProcessMessageBegin(c, a, msg)
    \/ \E c \in CallIds : ProcessMessageFinish(c)


\* ======================================================== ContextService
\* config.context_ttl_seconds = 3600, in half hours
ContextTtl == 2

NoTimestamp == -1

\* user messages, each named by the word of it that _extract_conversation_-
\* insights looks for
CtxMessages == {"house", "retirement", "worried", "conservative", "risky"}

\* the topics _enhance_with_conversation_insights puts into a fresh context
SampleTopics == <<"retirement planning", "emergency fund", "investment allocation">>

\* a financial_personality dict without conversation insights; financial_anxiety
\* is "absent" until the key is created
NoPersonality == [observed_risk_tolerance |-> "None", financial_anxiety |-> "absent"]

NoContext ==
    [cached |-> FALSE, recent_topics |-> <<>>, financial_personality |-> NoPersonality,
     context_version |-> 0, built_at |-> 0]

\* _extract_conversation_insights
TopicsDiscussed(msg) ==
    IF msg = "house" THEN <<"home purchase">>
    ELSE IF msg = "retirement" THEN <<"retirement planning">>
    ELSE <<>>

ConcernsExpressed(msg) ==
    IF msg \in {"worried", "risky"} THEN <<"expressed financial anxiety">> ELSE <<>>

PreferencesIndicated(msg) ==
    IF msg = "conservative" THEN <<"conservative_approach">>
    ELSE IF msg = "risky" THEN <<"aggressive_approach">>
    ELSE <<>>

RECURSIVE AppendNew(_, _)
\* for x in new: if x not in seq: seq.append(x)
AppendNew(seq, new) ==
    IF new = <<>> THEN seq
    ELSE AppendNew(IF InSeq(Head(new), seq) THEN seq ELSE Append(seq, Head(new)), Tail(new))

\* seq[-n:]
LastN(seq, n) ==
    IF Len(seq) <= n THEN seq ELSE SubSeq(seq, Len(seq) - n + 1, Len(seq))

\* the changes _apply_insights_to_context makes to a financial_personality dict
ApplyToPersonality(fp, msg) ==
    [observed_risk_tolerance |->
        IF PreferencesIndicated(msg) = <<"conservative_approach">> THEN "conservative"
        ELSE IF PreferencesIndicated(msg) = <<"aggressive_approach">> THEN "aggressive"
        ELSE fp.observed_risk_tolerance,
     financial_anxiety |->
        AppendNew(IF fp.financial_anxiety = "absent" THEN <<>> ELSE fp.financial_anxiety,
                  ConcernsExpressed(msg))]

\* _apply_insights_to_context
ApplyInsightsToContext(context, msg) ==
    [context EXCEPT
        !.recent_topics = LastN(AppendNew(@, TopicsDiscussed(msg)), 10),
        !.financial_personality = ApplyToPersonality(@, msg),
        !.context_version = @ + 1]

\* _build_fresh_context at time t: the context of the data service, whose
\* financial_personality is the user's financial_behavior dict itself when
\* the user has one, with the sample topics and the version of the real-time
\* analysis
BuildFreshContext(t) ==
    [cached |-> TRUE, recent_topics |-> SampleTopics,
     financial_personality |->
        IF financial_behavior.present THEN financial_behavior.dict ELSE NoPersonality,
     context_version |-> 2, built_at |-> t]

\* _is_context_cached_and_fresh
IsContextCachedAndFresh ==
    /\ context_cache.cached
    /\ cache_timestamp # NoTimestamp
    /\ clock - cache_timestamp < ContextTtl

\* the context get_user_context returns
UserContextOf(force_refresh) ==
    IF ~force_refresh /\ IsContextCachedAndFresh THEN context_cache
    ELSE BuildFreshContext(clock)

NothingReturned == [context |-> NoContext, at |-> 0, force_refresh |-> FALSE]

CtxInit ==
    /\ context_cache = NoContext
    /\ cache_timestamp = NoTimestamp
    /\ financial_behavior \in
          {[present |-> b, dict |-> NoPersonality] : b \in BOOLEAN}
    /\ clock = 0
    /\ updates = 0
    /\ returned = NothingReturned

\* get_user_context
GetUserContext(force_refresh) ==
    /\ LET context == UserContextOf(force_refresh)
       IN  /\ context_cache' = context
           /\ cache_timestamp' = IF ~force_refresh /\ IsContextCachedAndFresh
                                 THEN cache_timestamp ELSE clock
           /\ returned' = [context |-> context, at |-> clock, force_refresh |-> force_refresh]
    /\ UNCHANGED <<financial_behavior, clock, updates>>

\* update_context_from_conversation
UpdateContextFromConversation(msg) ==
    /\ updates < MaxUpdates
    /\ updates' = updates + 1
    /\ LET context == ApplyInsightsToContext(UserContextOf(FALSE), msg)
       IN  /\ context_cache' = context
           /\ cache_timestamp' = clock
           /\ financial_behavior' =
                  IF financial_behavior.present
                  THEN [financial_behavior EXCEPT !.dict = context.financial_personality]
                  ELSE financial_behavior
    /\ UNCHANGED <<clock, returned>>

\* clear_cache(user_id)
ClearCache ==
    /\ context_cache.cached
    /\ context_cache' = NoContext
    /\ cache_timestamp' = NoTimestamp
    /\ UNCHANGED <<financial_behavior, clock, updates, returned>>

\* half an hour passes
Tick ==
    /\ clock < MaxClock
    /\ clock' = clock + 1
    /\ UNCHANGED <<context_cache, cache_timestamp, financial_behavior, updates, returned>>

CtxNext ==
    \/ \E force_refresh \in BOOLEAN : GetUserContext(force_refresh)
    \/ \E msg \in CtxMessages : UpdateContextFromConversation(msg)
    \/ ClearCache
    \/ Tick

\* ========================================================= MemoryService
\* retention_policies, in months of 30 days (365 days: 12 months and 5 days)
retention_policies == [conversations |-> 3, insights |-> 12]

StoreMessages == {"budget", "risk"}

\* conversation_id = f"conv_{user_id}_{session_id}_{utcnow().timestamp()}",
\* for the one user and session
ConversationId(t) == <<"conv", t>>

InsightId(t) == <<"insight", "risk_profile", t>>

\* an expiry test that also takes the row written exactly at the cutoff
ExpiredInclusive(written, period) == written <= utcnow - period

\* WHERE timestamp < cutoff_date, with cutoff_date = utcnow() - retention_period
Expired(written, period) == written < utcnow - period

StoreInit ==
    /\ conversations = {}
    /\ user_insights = {}
    /\ utcnow = 0
    /\ rows_affected = 0

\* store_conversation: the INSERT fails on a primary key that exists and the
\* exception is raised again; otherwise the row is written and the insights of
\* the agent results are stored (their failure is only logged)
MemoryStoreConversation(msg, risk_profile) ==
    /\ IF \E row \in conversations : row.id = ConversationId(utcnow)
       THEN UNCHANGED <<conversations, user_insights>>
       ELSE /\ conversations' = conversations \cup
                   {[id |-> ConversationId(utcnow), timestamp |-> utcnow,
                     user_message |-> msg]}
            /\ user_insights' =
                   IF risk_profile /\ ~\E row \in user_insights : row.id = InsightId(utcnow)
                   THEN user_insights \cup {[id |-> InsightId(utcnow), created_at |-> utcnow]}
                   ELSE user_insights
    /\ UNCHANGED <<utcnow, rows_affected>>

\* cleanup_old_data: DELETE FROM conversations / user_insights the expired rows
CleanupOldData ==
    LET old_conversations ==
            {row \in conversations : Expired(row.timestamp, retention_policies.conversations)}
        old_insights ==
            {row \in user_insights : Expired(row.created_at, retention_policies.insights)}
    IN  /\ conversations' = conversations \ old_conversations
        /\ user_insights' = user_insights \ old_insights
        /\ rows_affected' = Cardinality(old_conversations) + Cardinality(old_insights)
        /\ UNCHANGED utcnow

\* a month passes
MonthPasses ==
    /\ utcnow < MaxMonths
    /\ utcnow' = utcnow + 1
    /\ UNCHANGED <<conversations, user_insights, rows_affected>>

StoreNext ==
    \/ \E msg \in StoreMessages, risk_profile \in BOOLEAN :
           MemoryStoreConversation(msg, risk_profile)
    \/ CleanupOldData
    \/ MonthPasses

\* ===================================================== routing decisions
\* intent_keywords of OrchestratorAgent._classify_user_intent, in dict order
intent_keywords ==
    << [intent |-> "financial_analysis",
        keywords |-> {"balance", "worth", "assets", "financial health", "overview"}],
       [intent |-> "goal_planning",
        keywords |-> {"goal", "save for", "plan", "target", "achieve", "retire"}],
       [intent |-> "investment_advice",
        keywords |-> {"invest", "portfolio", "stocks", "bonds", "allocation"}],
       [intent |-> "debt_management",
        keywords |-> {"debt", "loan", "pay off", "credit card", "mortgage"}],
       [intent |-> "risk_assessment",
        keywords |-> {"risk", "safe", "conservative", "aggressive", "volatile"}],
       [intent |-> "quick_question",
        keywords |-> {"what is", "how much", "when should", "simple question"}],
       [intent |-> "general_advice",
        keywords |-> {"should I", "what do you think", "advice", "recommend"}] >>

complexity_indicators ==
    [simple |-> {"what is", "how much", "when", "simple"},
     complex |-> {"multiple", "both", "optimize", "strategy", "comprehensive", "analysis"}]

\* the words _determine_agent_routing looks for in the message itself
GoalWords == {"goal", "save for", "plan to"}

\* the message is lowercased before the matching: "should I" is in no message
IntentTokens ==
    ((UNION {intent_keywords[i].keywords : i \in 1..Len(intent_keywords)})
        \cup complexity_indicators.simple \cup complexity_indicators.complex
        \cup GoalWords) \ {"should I"}

\* <<k, t>>: keyword k is a substring of token t
SubstringPairs ==
    {<<"plan", "plan to">>, <<"when", "when should">>, <<"simple", "simple question">>}

\* keyword in user_message
Occurs(k, message) ==
    \E t \in message : k = t \/ <<k, t>> \in SubstringPairs

NoClassification == [intent |-> "none", complexity |-> "none"]

IntentScore(i, message) ==
    Cardinality({k \in intent_keywords[i].keywords : Occurs(k, message)})

\* _classify_user_intent: max(intent_scores, key=intent_scores.get) over the
\* intents with a positive score, general_advice when there is none
ClassifyUserIntent(message, long) ==
    LET n == Len(intent_keywords)
        scored == {i \in 1..n : IntentScore(i, message) > 0}
        primary == CHOOSE i \in scored :
                       /\ \A j \in scored : IntentScore(j, message) <= IntentScore(i, message)
                       /\ \A j \in scored : j < i => IntentScore(j, message) < IntentScore(i, message)
        base == IF \E k \in complexity_indicators.simple : Occurs(k, message)
                THEN "simple"
                ELSE IF \E k \in complexity_indicators.complex : Occurs(k, message)
                     THEN "complex"
                     ELSE "intermediate"
    IN  [intent |-> IF scored = {} THEN "general_advice" ELSE intent_keywords[primary].intent,
         complexity |-> IF long /\ base = "simple" THEN "intermediate"
                        ELSE IF long /\ base = "intermediate" THEN "complex"
                        ELSE base]

\* a routing that adds neither the memory agent nor the analysis agent at the end
DetermineAgentRoutingBare(message, c) ==
    LET a1 == IF c.intent \in {"financial_analysis", "general_advice"}
              THEN <<"financial_analysis_agent">> ELSE <<>>
        a2 == IF c.intent \in {"risk_assessment", "investment_advice"} \/ Occurs("risk", message)
              THEN Append(a1, "risk_assessment_agent") ELSE a1
    IN  IF c.complexity = "simple" THEN <<"quick_response_agent">> ELSE a2

\* _determine_agent_routing
DetermineAgentRouting(message, c) ==
    LET a1 == IF c.intent \in {"financial_analysis", "general_advice"}
              THEN <<"financial_analysis_agent">> ELSE <<>>
        a2 == IF c.intent \in {"risk_assessment", "investment_advice"} \/ Occurs("risk", message)
              THEN Append(a1, "risk_assessment_agent") ELSE a1
        a3 == IF c.intent = "goal_planning" \/ \E w \in GoalWords : Occurs(w, message)
              THEN Append(a2, "goal_planning_agent") ELSE a2
        a4 == IF c.intent = "investment_advice" \/ Occurs("invest", message)
              THEN Append(a3, "portfolio_analysis_agent") ELSE a3
        a5 == IF c.complexity = "complex" \/ Len(a4) > 1
              THEN Append(a4, "recommendation_engine") ELSE a4
        a6 == Append(a5, "context_memory_agent")
    IN  IF c.complexity = "simple" THEN <<"quick_response_agent">>
        ELSE IF \E k \in 1..Len(a6) : a6[k] \in {"financial_analysis_agent", "quick_response_agent"}
             THEN a6
             ELSE <<"financial_analysis_agent">> \o a6

\* ---- the LangGraph workflow of AdvancedOrchestrator
\* _langgraph_route_conversation
LanggraphRouteConversation(analysis) ==
    LET agents == {analysis.agents_to_run[k] : k \in 1..Len(analysis.agents_to_run)}
    IN  IF analysis.selected_routing = "financial_analysis" /\ Len(analysis.agents_to_run) = 1
        THEN "financial_only"
        ELSE IF analysis.selected_routing = "goal_planning" /\ "goal_extraction" \in agents
        THEN "goal_only"
        ELSE IF analysis.selected_routing = "risk_assessment" /\ Len(analysis.agents_to_run) <= 2
        THEN "risk_only"
        ELSE IF "financial_analysis" \in agents /\ "risk_assessment" \in agents
        THEN "financial_and_risk"
        ELSE "comprehensive"

\* add_conditional_edges("analyze_routing", ...)
ConditionalEdges ==
    [financial_only |-> "financial_analysis",
     goal_only |-> "goal_extraction",
     risk_only |-> "risk_assessment",
     financial_and_risk |-> "financial_analysis",
     comprehensive |-> "financial_analysis"]

\* add_edge(from, to)
Edges ==
    [financial_analysis |-> "synthesize_results",
     goal_extraction |-> "generate_recommendations",
     risk_assessment |-> "generate_recommendations",
     generate_recommendations |-> "synthesize_results",
     synthesize_results |-> "END"]

\* the agent whose process a node function calls
NodeAgent ==
    [financial_analysis |-> "financial_analysis",
     goal_extraction |-> "goal_extraction",
     risk_assessment |-> "risk_assessment",
     generate_recommendations |-> "recommendation"]

\* _analyze_conversation_routing has returned an analysis of route_message
Routed == route_analysis # NoRouting

RouteInit ==
    /\ route_message = {}
    /\ route_analysis = NoRouting
    /\ intent_message = {}
    /\ long_message = FALSE
    /\ classification = NoClassification
    /\ agents_to_invoke = <<>>
    /\ graph_node = "none"
    /\ graph_results = <<>>

NothingForAdvanced == route_message = {} /\ route_analysis = NoRouting

NothingForOrchestratorAgent ==
    intent_message = {} /\ ~long_message /\ classification = NoClassification

\* the caller's message holds one more keyword of the routing table
ComposeMessage(k) ==
    /\ NothingForOrchestratorAgent
    /\ route_analysis = NoRouting
    /\ k \notin route_message
    /\ Cardinality(route_message) < MaxRouteKeywords
    /\ route_message' = route_message \cup {k}
    /\ UNCHANGED <<route_analysis, intent_message, long_message, classification,
                   agents_to_invoke, graph_node, graph_results>>

\* _analyze_conversation_routing(user_message, state) on the message
AnalyzeMessage ==
    /\ NothingForOrchestratorAgent
    /\ route_analysis = NoRouting
    /\ route_analysis' = AnalyzeConversationRouting(route_message)
    /\ UNCHANGED <<route_message, intent_message, long_message, classification,
                   agents_to_invoke, graph_node, graph_results>>

\* the message for OrchestratorAgent holds one more of the words it looks for
ComposeIntentMessage(t) ==
    /\ NothingForAdvanced
    /\ classification = NoClassification
    /\ t \notin intent_message
    /\ Cardinality(intent_message) < MaxRouteKeywords
    /\ intent_message' = intent_message \cup {t}
    /\ UNCHANGED <<route_message, route_analysis, long_message, classification,
                   agents_to_invoke, graph_node, graph_results>>

\* the message for OrchestratorAgent has more than 30 words
LengthenIntentMessage ==
    /\ NothingForAdvanced
    /\ classification = NoClassification
    /\ ~long_message
    /\ long_message' = TRUE
    /\ UNCHANGED <<route_message, route_analysis, intent_message, classification,
                   agents_to_invoke, graph_node, graph_results>>

\* steps 1 and 2 of OrchestratorAgent._execute_core_logic
ClassifyAndRoute ==
    /\ NothingForAdvanced
    /\ classification = NoClassification
    /\ LET c == ClassifyUserIntent(intent_message, long_message)
       IN  /\ classification' = c
           /\ agents_to_invoke' = DetermineAgentRouting(intent_message, c)
    /\ UNCHANGED <<route_message, route_analysis, intent_message, long_message,
                   graph_node, graph_results>>

\* the workflow built by _build_langgraph_workflow is invoked for the message:
\* its entry point analyze_routing repeats the routing analysis, and the
\* conditional edge leads to the first agent node
GraphAnalyzeRouting ==
    /\ Routed
    /\ graph_node = "none"
    /\ graph_node' = ConditionalEdges[LanggraphRouteConversation(route_analysis)]
    /\ UNCHANGED <<route_message, route_analysis, intent_message, long_message,
                   classification, agents_to_invoke, graph_results>>

\* an agent node runs: agent.process(state), the result is appended and the
\* edge out of the node is followed
GraphAgentNode ==
    /\ graph_node \in DOMAIN NodeAgent
    /\ graph_results' = Append(graph_results, NodeAgent[graph_node])
    /\ graph_node' = Edges[graph_node]
    /\ UNCHANGED <<route_message, route_analysis, intent_message, long_message,
                   classification, agents_to_invoke>>

\* the node synthesize_results runs and the workflow ends
GraphSynthesizeResults ==
    /\ graph_node = "synthesize_results"
    /\ graph_node' = Edges[graph_node]
    /\ UNCHANGED <<route_message, route_analysis, intent_message, long_message,
                   classification, agents_to_invoke, graph_results>>

RouteNext ==
    \/ \E k \in AllKeywords : ComposeMessage(k)
    \/ AnalyzeMessage
    \/ \E t \in IntentTokens : ComposeIntentMessage(t)
    \/ LengthenIntentMessage
    \/ ClassifyAndRoute
    \/ GraphAnalyzeRouting
    \/ GraphAgentNode
    \/ GraphSynthesizeResults

\* ================================================= ResilientRiskAssessor
\* the constants of the circuit_breaker dict
failure_threshold == 5

recovery_timeout == 60

\* the calls that can be under way at the same time (concurrent requests)
Slots == {1, 2}

BlockedMessage == "Circuit breaker is OPEN - service unavailable"

\* timedelta.seconds: the seconds of the difference without its whole days
TimedeltaSeconds(d) == d.ticks * 30

\* the seconds that have really passed
ElapsedSeconds(d) == d.days * 86400 + d.ticks * 30

FreeCall ==
    [id |-> 0, st |-> "free", attempt |-> 0, works |-> 0, blocked |-> FALSE,
     result |-> "none"]

\* _check_circuit_breaker: the value it returns
CheckCircuitBreaker(cb, d) ==
    IF cb.state = "open"
    THEN cb.has_last_failure /\ TimedeltaSeconds(d) >= recovery_timeout
    ELSE TRUE

\* _check_circuit_breaker: the breaker it leaves
CircuitBreakerChecked(cb, d) ==
    IF cb.state = "open" /\ CheckCircuitBreaker(cb, d)
    THEN [cb EXCEPT !.state = "half_open"]
    ELSE cb

\* a breaker that opens one failure late
RecordFailureLate(cb) ==
    [state |-> IF cb.failure_count + 1 > failure_threshold THEN "open" ELSE cb.state,
     failure_count |-> cb.failure_count + 1,
     has_last_failure |-> TRUE]

\* _record_failure
RecordFailure(cb) ==
    [state |-> IF cb.failure_count + 1 >= failure_threshold THEN "open" ELSE cb.state,
     failure_count |-> cb.failure_count + 1,
     has_last_failure |-> TRUE]

\* _record_success
RecordSuccess(cb) ==
    IF cb.state = "half_open"
    THEN [cb EXCEPT !.state = "closed", !.failure_count = 0]
    ELSE cb

\* the call after an attempt has ended in the error given: the fallback
\* result, or the wait before the next attempt
AfterFailedAttempt(call, recoverable) ==
    IF ~recoverable \/ Exhausted("risk_assessor", call.attempt)
    THEN [call EXCEPT !.st = "done", !.result = "fallback"]
    ELSE [call EXCEPT !.st = "backoff"]

\* an attempt that does the work whatever the breaker says
BeginAttemptUnchecked(s, call) ==
    /\ circuit_breaker' = CircuitBreakerChecked(circuit_breaker, idle)
    /\ rcalls' = [rcalls EXCEPT ![s] = [call EXCEPT !.st = "working"]]

\* an attempt begins: _execute_core_logic checks the breaker and either starts
\* the work or raises, which execute_with_resilience handles at once
BeginAttempt(s, call) ==
    /\ circuit_breaker' = CircuitBreakerChecked(circuit_breaker, idle)
    /\ rcalls' = [rcalls EXCEPT ![s] =
                    IF CheckCircuitBreaker(circuit_breaker, idle)
                    THEN [call EXCEPT !.st = "working"]
                    ELSE AfterFailedAttempt([call EXCEPT !.blocked = TRUE],
                                            IsRecoverableError(BlockedMessage))]

BreakerInit ==
    /\ circuit_breaker = [state |-> "closed", failure_count |-> 0,
                          has_last_failure |-> FALSE]
    /\ idle = [days |-> 0, ticks |-> 0]
    /\ rcalls = [s \in Slots |-> FreeCall]
    /\ calls_made = 0

\* execute_with_resilience is called on the risk assessor
CallBegins(s) ==
    /\ rcalls[s].st \in {"free", "done"}
    /\ calls_made < MaxBreakerCalls
    /\ calls_made' = calls_made + 1
    /\ BeginAttempt(s, [FreeCall EXCEPT !.id = calls_made + 1])
    /\ UNCHANGED idle

\* _wait_before_retry is over: the next attempt
RetryBegins(s) ==
    /\ rcalls[s].st = "backoff"
    /\ BeginAttempt(s, [rcalls[s] EXCEPT !.attempt = @ + 1])
    /\ UNCHANGED <<idle, calls_made>>

\* the work is done without the simulated failure: _record_success
WorkSucceeds(s) ==
    /\ rcalls[s].st = "working"
    /\ circuit_breaker' = RecordSuccess(circuit_breaker)
    /\ rcalls' = [rcalls EXCEPT ![s].st = "done", ![s].works = @ + 1, ![s].result = "ok"]
    /\ UNCHANGED <<idle, calls_made>>

\* the simulated failure: _record_failure, then the exception
WorkFails(s) ==
    /\ rcalls[s].st = "working"
    /\ circuit_breaker' = RecordFailure(circuit_breaker)
    /\ idle' = [days |-> 0, ticks |-> 0]
    /\ rcalls' = [rcalls EXCEPT ![s] =
                    AfterFailedAttempt([@ EXCEPT !.works = @ + 1],
                        IsRecoverableError("Risk assessment service temporarily unavailable"))]
    /\ UNCHANGED calls_made

\* asyncio.wait_for cancels the work at the unit's timeout
WorkTimesOut(s) ==
    /\ rcalls[s].st = "working"
    /\ rcalls' = [rcalls EXCEPT ![s] = AfterFailedAttempt([@ EXCEPT !.works = @ + 1], TRUE)]
    /\ UNCHANGED <<circuit_breaker, idle, calls_made>>

\* half a minute passes
HalfMinutePasses ==
    /\ circuit_breaker.has_last_failure
    /\ idle.ticks < MaxIdleTicks
    /\ idle' = [idle EXCEPT !.ticks = @ + 1]
    /\ UNCHANGED <<circuit_breaker, rcalls, calls_made>>

\* a day passes
DayPasses ==
    /\ circuit_breaker.has_last_failure
    /\ idle.days < MaxIdleDays
    /\ idle' = [idle EXCEPT !.days = @ + 1]
    /\ UNCHANGED <<circuit_breaker, rcalls, calls_made>>

BreakerNext ==
    \/ \E s \in Slots : CallBegins(s)
    \/ \E s \in Slots : RetryBegins(s)
    \/ \E s \in Slots : WorkSucceeds(s)
    \/ \E s \in Slots : WorkFails(s)
    \/ \E s \in Slots : WorkTimesOut(s)
    \/ HalfMinutePasses
    \/ DayPasses

\* ============================== ProductionOrchestrator, several requests
Requests == 1..MaxRequests

\* a request that has not been submitted
NoRequest == [pc |-> "new", failed_agents |-> {}, response |-> "none"]

\* the metrics update in which a request with failed agents also counts as
\* successful
CountCompletedTwice(m, failed_agents) ==
    IF failed_agents # {}
    THEN [m EXCEPT !.partial_failures = @ + 1, !.successful_requests = @ + 1]
    ELSE [m EXCEPT !.successful_requests = @ + 1]

\* the metrics update at the end of the try block
CountCompleted(m, failed_agents) ==
    IF failed_agents # {}
    THEN [m EXCEPT !.partial_failures = @ + 1]
    ELSE [m EXCEPT !.successful_requests = @ + 1]

MetricsInit == requests = [r \in Requests |-> NoRequest]

\* process_financial_query is called: up to the await of the analysis phase
SubmitRequest(r) ==
    /\ requests[r].pc = "new"
    /\ execution_metrics' = [execution_metrics EXCEPT !.total_requests = @ + 1]
    /\ requests' = [requests EXCEPT ![r].pc = "analysis"]

\* the analysis phase returns, the units in failed having put themselves into
\* failed_agents: up to the await of the recommendation engine
AnalysisPhaseReturns(r, failed) ==
    /\ requests[r].pc = "analysis"
    /\ requests' = [requests EXCEPT ![r].pc = "recommendation",
                                    ![r].failed_agents = @ \cup failed]
    /\ UNCHANGED execution_metrics

\* the recommendation phase returns: the response is compiled, the request is
\* counted and process_financial_query returns
RecommendationPhaseReturns(r, failed) ==
    /\ requests[r].pc = "recommendation"
    /\ LET failed_agents == requests[r].failed_agents \cup failed
       IN  /\ execution_metrics' = CountCompleted(execution_metrics, failed_agents)
           /\ requests' = [requests EXCEPT ![r].pc = "returned",
                                           ![r].failed_agents = failed_agents,
                                           ![r].response = "compiled"]

\* an Exception leaves the try block: the except branch counts the request
\* and returns the emergency fallback response
CriticalFailure(r) ==
    /\ requests[r].pc \in {"analysis", "recommendation"}
    /\ execution_metrics' = [execution_metrics EXCEPT !.total_failures = @ + 1]
    /\ requests' = [requests EXCEPT ![r].pc = "returned", ![r].response = "emergency"]

MetricsNext ==
    \/ \E r \in Requests : SubmitRequest(r)
    \/ \E r \in Requests, failed \in SUBSET AnalysisUnits : AnalysisPhaseReturns(r, failed)
    \/ \E r \in Requests, failed \in SUBSET {"recommendation_engine"} :
          RecommendationPhaseReturns(r, failed)
    \/ \E r \in Requests : CriticalFailure(r)

\* ========================================================= specifications
\* both orchestrators as constructed, before any message or query
Init == AdvInit /\ ProdInit /\ MemInit /\ CtxInit /\ StoreInit /\ RouteInit /\ BreakerInit
        /\ MetricsInit

SpecAdv == Init /\ [][AdvNext /\ UNCHANGED <<prodVars, memVars, ctxVars, storeVars, routeVars, breakerVars, metricsVars>>]_vars

SpecProd == Init /\ [][ProdNext /\ UNCHANGED <<advVars, memVars, ctxVars, storeVars, routeVars, breakerVars, metricsVars>>]_vars

SpecMem == Init /\ [][MemNext /\ UNCHANGED <<advVars, prodVars, ctxVars, storeVars, routeVars, breakerVars, metricsVars>>]_vars

SpecCtx == Init /\ [][CtxNext /\ UNCHANGED <<advVars, prodVars, memVars, storeVars, routeVars, breakerVars, metricsVars>>]_vars

SpecStore == Init /\ [][StoreNext /\ UNCHANGED <<advVars, prodVars, memVars, ctxVars, routeVars, breakerVars, metricsVars>>]_vars

SpecRoute == Init /\ [][RouteNext /\ UNCHANGED <<advVars, prodVars, memVars, ctxVars, storeVars, breakerVars, metricsVars>>]_vars

SpecBreaker == Init /\ [][BreakerNext /\ UNCHANGED <<advVars, prodVars, memVars, ctxVars, storeVars, routeVars, metricsVars>>]_vars

\* what the requests of SpecMetrics leave alone in the orchestrator
singleRequestVars == <<ppc, now, state, exec, agent, final_response>>

SpecMetrics == Init /\ [][MetricsNext /\ UNCHANGED <<advVars, singleRequestVars, memVars, ctxVars, storeVars, routeVars, breakerVars>>]_vars

\* ------------------------------------------------------------ claims C1-C4
TurnStored(n) == \E i \in 1..Len(memory) : memory[i].turn = n

\* C1: when the execution step of a turn is over, the result list holds
\* exactly one result per agent of the routing decision, in the order of the
\* agent list, whichever units failed.
C1_OneResultPerAgent ==
    (pc = "returned" /\ routing_analysis.selected_routing # "none")
        => /\ Len(agent_results) = Len(AgentsToRun)
           /\ \A i \in 1..Len(agent_results) :
                  agent_results[i].agent_type = AgentsToRun[i]

C1_Witness ==
    /\ pc = "returned"
    /\ Len(AgentsToRun) = 4
    /\ \A a \in AgentNames : core[a] \in {"raise", "error_response"}
    /\ Len(agent_results) = 4

\* C2: a unit whose core logic failed, by raising or by returning its own
\* error response, is recorded with success = FALSE.
C2_FailedUnitNotSuccessful ==
    \A a \in AgentNames :
        (tasks[a].kind = "dict" /\ core[a] \in {"raise", "error_response"})
            => tasks[a].success = FALSE

\* C3: no exception leaves process_message: whatever fault is raised while
\* the state is built, the message classified, the agents run or the results
\* synthesized, the caller gets a response with text and a success flag.
C3_NoExceptionEscapes ==
    /\ result.kind # "raise"
    /\ pc = "returned" => /\ result.kind = "return"
                          /\ result.success \in BOOLEAN
                          /\ result.response # <<>>

C3_Witness ==
    /\ pc = "returned"
    /\ user_message = NoneMsg
    /\ result.workflow_type = "error"

RECURSIVE CountErrors(_, _, _)
\* the number of errors of unit u in the list, of the kinds given
CountErrors(errors, u, kinds) ==
    IF errors = <<>> THEN 0
    ELSE (IF errors[1].agent_name = u /\ errors[1].error_type \in kinds THEN 1 ELSE 0)
         + CountErrors(Tail(errors), u, kinds)

ErrorKinds ==
    {"agent_timeout", "api_timeout", "api_rate_limit", "api_quota_exceeded",
     "network_error", "memory_error", "permission_error", "agent_crash"}

RetriedKinds == {"agent_timeout", "api_timeout", "api_rate_limit", "network_error"}

\* C5: a unit is retried only after a timeout or a recoverable error, with one
\* backoff wait before each retry; its core logic runs at most max_retries + 1
\* times in a call, and after the last allowed attempt has failed the call
\* does not wait or retry but ends with the failure result.
C5_BoundedRetries ==
    \A u \in Units :
        /\ exec[u].core_runs <= max_retries[u] + 1
        /\ exec[u].st \in {"running", "done"} => exec[u].waits = exec[u].core_runs - 1
        /\ exec[u].st = "backoff"
              => /\ exec[u].waits = exec[u].core_runs
                 /\ exec[u].core_runs <= max_retries[u]
                 /\ agent[u].last_error.error_type \in RetriedKinds
        /\ (exec[u].st = "done" /\ ~exec[u].result.success)
              => /\ exec[u].result.fallback
                 /\ exec[u].result.error \in ErrorKinds

C5_Witness ==
    \E u \in Units :
        /\ exec[u].st = "done"
        /\ exec[u].core_runs = max_retries[u] + 1
        /\ exec[u].waits = max_retries[u]
        /\ exec[u].result.fallback
        /\ agent[u].last_error.error_type \in RetriedKinds

NonRecoverableFailure(u) ==
    agent[u].last_error.error_type \in ErrorKinds \ RetriedKinds

\* C6 as stated: in a call in which an attempt fails with a non-recoverable
\* error the core logic is executed exactly once.
C6_NonRecoverableRunsOnce ==
    \A u \in Units : NonRecoverableFailure(u) => exec[u].core_runs = 1

\* C6 amended: an attempt that fails with a non-recoverable error ends the
\* call at once with the failure result: no wait and no attempt follow it, so
\* the core logic has run exactly once if that attempt was the first.
C6_NonRecoverableEndsCall ==
    \A u \in Units :
        NonRecoverableFailure(u)
            => /\ exec[u].st = "done"
               /\ exec[u].result.fallback /\ ~exec[u].result.success
               /\ exec[u].core_runs = agent[u].last_error.retry_count + 1
               /\ exec[u].waits = agent[u].last_error.retry_count
               /\ CountErrors(state.errors, u, ErrorKinds \ RetriedKinds) = 1

C6_Witness ==
    \E u \in Units :
        /\ NonRecoverableFailure(u)
        /\ agent[u].last_error.retry_count = 1
        /\ exec[u].core_runs = 2
        /\ ppc = "done"

\* what a unit gave back is in the response
Used(u) ==
    CASE u = "financial_analyzer" -> final_response.financial_analysis
      [] u = "risk_assessor" -> final_response.risk_assessment
      [] OTHER -> final_response.recommendations

TimedOut(u) == CountErrors(state.errors, u, {"agent_timeout"}) > 0

\* C7: when a unit has timed out, the other units of the turn are not
\* cancelled and the results they produced are in the response.
C7_TimeoutCancelsOnlyThatUnit ==
    (ppc = "done" /\ \E v \in Units : TimedOut(v))
        => \A u \in Units :
               ~TimedOut(u) => /\ exec[u].st # "cancelled"
                               /\ exec[u].result.success => Used(u)

\* every attempt u made ended in its timeout, and u did not return a result
TimedOutOnEveryAttempt(u) ==
    /\ exec[u].core_runs > 0
    /\ CountErrors(state.errors, u, ErrorKinds) = CountErrors(state.errors, u, {"agent_timeout"})
    /\ \/ /\ exec[u].st = "done"
          /\ exec[u].result.fallback
          /\ CountErrors(state.errors, u, {"agent_timeout"}) = exec[u].core_runs
       \/ /\ exec[u].st = "cancelled"
          /\ exec[u].pending.kind = "timeout"

\* C8: if a unit times out on every attempt until its retries are exhausted,
\* the request still returns a response with success = TRUE, degraded = TRUE
\* and the notice of simplified analysis.
C8_TimeoutsDegradeTheTurn ==
    (ppc = "done" /\ \E u \in Units : TimedOutOnEveryAttempt(u))
        => /\ final_response.kind = "return"
           /\ final_response.success
           /\ final_response.degraded
           /\ final_response.notice

C8_Witness ==
    /\ ppc = "done"
    /\ exec["recommendation_engine"].core_runs = max_retries["recommendation_engine"] + 1
    /\ TimedOutOnEveryAttempt("recommendation_engine")
    /\ \A u \in AnalysisUnits : exec[u].result.success
    /\ final_response.degraded

C10_StateUntouchedWhileExecuting ==
    ppc = "analysis" => state = InitialState

\* the fields of the state that the core logic of the units reads
ReadFields(st) ==
    <<st.user_question, st.account_balances, st.financial_summary,
      st.risk_assessment, st.recommendations>>

\* C10 amended: while the units of a phase execute, no unit changes the
\* fields of the shared state that the units' core logic reads (question,
\* balances, summaries, recommendations); a unit changes only the error
\* bookkeeping (errors, failed_agents, fallback_used, confidence_score).
C10_UnitsLeaveReadFieldsAlone ==
    [][(ppc' = ppc /\ ppc \in {"analysis", "recommendation"})
          => ReadFields(state') = ReadFields(state)]_vars

C10_Witness ==
    /\ ppc = "analysis"
    /\ state.fallback_used
    /\ state.errors # <<>>
    /\ state.confidence_score = 4
    /\ \E u \in AnalysisUnits : exec[u].st = "running"

\* -------------------------------------------------------- claims C11-C20
AllCallsDone == \A c \in CallIds : calls[c].st = "done"

\* the stored profile shows what call c changed, or a newer value of the field
Reflected(c) ==
    /\ InSeq(ExtractTopic(calls[c].msg), user_profiles.common_question_types)
    /\ RiskToleranceIn(calls[c].msg) # "None" => user_profiles.risk_tolerance # "None"
    /\ ExperienceIn(calls[c].msg) # "None" => user_profiles.investment_experience # "None"

\* C11: after two turns of one user that overlapped in time have both
\* finished, the stored profile reflects the profile changes of both turns.
C11_OverlappingUpdatesBothKept ==
    (overlapped /\ AllCallsDone) => \A c \in CallIds : Reflected(c)

\* C12: the profile updates of a turn are written back by one step at the end
\* of the turn: a call that has returned has saved the profile exactly once, a
\* call whose analysis is not over has not saved it, and the stored profile of
\* an existing user changes only in the step that ends a call's analysis.
C12_WriteBackOncePerTurn ==
    /\ [](\A c \in CallIds : calls[c].saves = IF calls[c].st = "done" THEN 1 ELSE 0)
    /\ [][(user_profiles.exists /\ user_profiles' # user_profiles)
             => \E c \in CallIds : /\ UnderWay(c)
                                   /\ calls'[c].st = "done"
                                   /\ calls'[c].saves = calls[c].saves + 1
                                   /\ \A d \in CallIds \ {c} : calls'[d] = calls[d]]_vars

C12_Witness ==
    /\ AllCallsDone
    /\ overlapped
    /\ \A c \in CallIds : calls[c].saves = 1
    /\ user_profiles.risk_tolerance # "None"

\* what a context holds of the knowledge accumulated about the user
Knows(context) ==
    {<<"topic", context.recent_topics[i]>> : i \in 1..Len(context.recent_topics)}
        \cup (IF context.financial_personality.observed_risk_tolerance # "None"
              THEN {<<"observed_risk_tolerance", "set">>} ELSE {})
        \cup (IF context.financial_personality.financial_anxiety = "absent" THEN {}
              ELSE {<<"financial_anxiety", context.financial_personality.financial_anxiety[i]>> :
                       i \in 1..Len(context.financial_personality.financial_anxiety)})

\* C13: what the user's context held when it was last handed out is still in
\* it, or replaced by a newer value, whenever it is handed out again: nothing
\* learned in an earlier turn is cleared.
C13_LearnedNeverCleared ==
    [][returned.context.cached => Knows(returned.context) \subseteq Knows(returned'.context)]_vars

\* the fallback workflow has returned the turn's response
FallbackReturned == pc = "returned" /\ result.workflow_type = "fallback"

\* C14: when none of the agent results of a turn is successful, the response
\* text is the fixed apology and the response reports success = FALSE.
C14_NoSuccessReportsFailure ==
    (FallbackReturned /\ SuccessfulResults(result.agent_results) = <<>>)
        => /\ result.response = Apology
           /\ ~result.success

\* the only successful result of the returned turn, when there is exactly one
OnlySuccessful == SuccessfulResults(result.agent_results)[1]

\* C15: when exactly one of the routed units succeeds and that unit wrote a
\* response text, the synthesized response is that unit's own text, without
\* any other part.
C15_SingleSuccessSpeaksAlone ==
    (/\ FallbackReturned
     /\ Len(SuccessfulResults(result.agent_results)) = 1
     /\ OnlySuccessful.response # "")
        => result.response
             = << <<OnlySuccessful.agent_type, OnlySuccessful.response>> >>

\* the result list in every order in which the units' results could be listed
PermutedLists(results) ==
    {[i \in 1..Len(results) |-> results[f[i]]] : f \in Permutations(1..Len(results))}

\* position of an agent type in the order in which the synthesis appends parts
PartRank(t) ==
    CASE t = "financial_analysis" -> 1
      [] t = "goal_extraction" -> 2
      [] t = "risk_assessment" -> 3
      [] t = "recommendation" -> 4
      [] OTHER -> 5

InFixedOrder(response) ==
    \A i, j \in 1..Len(response) :
        i < j => PartRank(response[i][1]) <= PartRank(response[j][1])
                 /\ (response[i][1] # "orchestrator" => response[i][1] # response[j][1])

ParallelReturned ==
    FallbackReturned /\ routing_analysis.execution_strategy = "parallel"

\* C16: in parallel mode the synthesized response is the same for every order
\* of the result list (hence for every completion order of the units), and the
\* units' texts appear in the order financial analysis, goal extraction, risk
\* assessment, recommendation.
C16_SynthesisIgnoresResultOrder ==
    ParallelReturned
        => /\ \A p \in PermutedLists(result.agent_results) :
                SynthesizeAgentResults(p) = result.response
           /\ InFixedOrder(result.response)

\* a parallel turn whose response carries the texts of goal extraction and of
\* recommendation, which the priority sort puts in the opposite order
C16_Witness ==
    /\ ParallelReturned
    /\ \E i, j \in 1..Len(result.response) :
         /\ i < j
         /\ result.response[i][1] = "goal_extraction"
         /\ result.response[j][1] = "recommendation"
    /\ \E k \in 1..Len(result.response) : result.response[k][1] = "financial_analysis"

\* an attempt of u that has neither returned nor failed: it is running, or it
\* was running when the phase timeout cancelled the unit
InFlight(u) ==
    /\ exec[u].st \in {"running", "cancelled"}
    /\ exec[u].waits < exec[u].core_runs

\* the attempts of u that ended in the unit's timeout or in an exception
FailedAttempts(u) ==
    exec[u].core_runs
        - (IF InFlight(u) THEN 1 ELSE 0)
        - (IF exec[u].st = "done" /\ exec[u].result.success THEN 1 ELSE 0)

RECURSIVE ErrorsOf(_, _)
\* the error entries of unit u, in the order in which they were recorded
ErrorsOf(errors, u) ==
    IF errors = <<>> THEN <<>>
    ELSE IF errors[1].agent_name = u
         THEN <<errors[1]>> \o ErrorsOf(Tail(errors), u)
         ELSE ErrorsOf(Tail(errors), u)

C18_StoredTurnsStayForever ==
    [][\A row \in conversations : row \in conversations']_vars

\* C18 amended: a stored conversation turn is never modified, and it is
\* removed only by cleanup_old_data once it is older than the retention
\* period of 90 days; no two rows share an id.
C18_StoredTurnsOnlyExpire ==
    /\ [](\A r1, r2 \in conversations : r1.id = r2.id => r1 = r2)
    /\ [][\A row \in conversations :
              \/ row \in conversations'
              \/ /\ row.timestamp + retention_policies.conversations < utcnow
                 /\ rows_affected' > 0
                 /\ \A other \in conversations' : other.id # row.id]_vars

\* a cleanup has removed rows and left the younger turns in the table
C18_Witness ==
    /\ rows_affected > 0
    /\ \E row \in conversations :
           row.timestamp + retention_policies.conversations = utcnow
    /\ ~\E row \in conversations :
           row.timestamp + retention_policies.conversations < utcnow

\* agent a is named in the agents_used list of the returned response
ListedAsUsed(a) ==
    \E i \in 1..Len(result.agents_used) : result.agents_used[i] = a

SpecialistAgents ==
    UNION {{routing_patterns[i].agents[k] : k \in 1..Len(routing_patterns[i].agents)}
               : i \in 1..Len(routing_patterns)}

\* the message of the turn has been classified
Classified == routing_analysis # NoRouting

\* C20: a message in which no keyword of any routing pattern occurs is routed
\* to "comprehensive_analysis", whose agent list is not empty, names every
\* specialist agent of the routing table exactly once and only agents that
\* exist.
C20_NoKeywordRoutesToComprehensive ==
    (Classified /\ user_message \cap AllKeywords = {})
        => /\ routing_analysis.selected_routing = "comprehensive_analysis"
           /\ AgentsToRun # <<>>
           /\ {AgentsToRun[k] : k \in 1..Len(AgentsToRun)} = SpecialistAgents
           /\ Len(AgentsToRun) = Cardinality(SpecialistAgents)
           /\ \A k \in 1..Len(AgentsToRun) : GetAgentByName(AgentsToRun[k]) # "None"

\* a turn with a message without any keyword has run all four agents
C20_Witness ==
    /\ pc = "returned"
    /\ user_message = {}
    /\ routing_analysis.selected_routing = "comprehensive_analysis"
    /\ result.workflow_type = "fallback"
    /\ result.agents_run = 4

\* ---------------------------------------------------------- claims C21-C30
\* the keywords of pattern i that no other pattern has
ExclusiveKeywords(i) ==
    routing_patterns[i].keywords
        \ UNION {routing_patterns[j].keywords : j \in (1..Len(routing_patterns)) \ {i}}

\* C21: a message in which keywords of one routing pattern X occur, none of
\* them a keyword of another pattern, and no keyword of any other pattern, is
\* routed to X.
C21_ExclusiveKeywordSelectsItsIntent ==
    \A i \in 1..Len(routing_patterns) :
        (Routed /\ route_message # {} /\ route_message \subseteq ExclusiveKeywords(i))
            => /\ route_analysis.selected_routing = routing_patterns[i].name
               /\ route_analysis.agents_to_run = routing_patterns[i].agents

\* a message with one keyword of the medium-priority pattern risk_assessment
\* only has been routed to it
C21_Witness ==
    /\ Routed
    /\ route_message = {"volatile"}
    /\ route_analysis.selected_routing = "risk_assessment"

\* the weighted score of pattern i for the message, in tenths: the number of
\* its keywords in the message times 1.5 (high priority) or 1.2 (medium)
WeightedScore10(i, message) ==
    Cardinality(routing_patterns[i].keywords \cap message)
        * (CASE routing_patterns[i].priority = "high" -> 15
             [] routing_patterns[i].priority = "medium" -> 12
             [] OTHER -> 10)

\* pattern i has the highest weighted score and is the first declared with it
Wins(i, message) ==
    /\ \A j \in 1..Len(routing_patterns) :
           WeightedScore10(j, message) <= WeightedScore10(i, message)
    /\ \A j \in 1..(i - 1) :
           WeightedScore10(j, message) < WeightedScore10(i, message)

\* C22: the pattern with the highest weighted score wins, the first declared
\* among those that share it; the winner is the selected routing whenever its
\* score reaches the threshold of 1, below which the default replaces it.
C22_HighestWeightedScoreWins ==
    Routed =>
        \A i \in 1..Len(routing_patterns) :
            Wins(i, route_message) =>
                IF WeightedScore10(i, route_message) >= 10
                THEN /\ route_analysis.selected_routing = routing_patterns[i].name
                     /\ route_analysis.score10 = WeightedScore10(i, route_message)
                ELSE route_analysis.selected_routing = "comprehensive_analysis"

\* 'portfolio' gives financial_analysis and investment_advice the same highest
\* score, and the pattern declared first has been selected
C22_Witness ==
    /\ Routed
    /\ route_message = {"portfolio", "safe"}
    /\ WeightedScore10(1, route_message) = WeightedScore10(4, route_message)
    /\ WeightedScore10(3, route_message) = 12
    /\ route_analysis.selected_routing = "financial_analysis"

\* OrchestratorAgent has classified intent_message and chosen its agents
Decided == classification # NoClassification

\* C23: every routing decision names at least one agent to invoke, whatever
\* the message: the agents_to_run of _analyze_conversation_routing and the
\* list _determine_agent_routing returns are never empty.
C23_RoutingListNeverEmpty ==
    /\ Routed => Len(route_analysis.agents_to_run) >= 1
    /\ Decided => Len(agents_to_invoke) >= 1

\* a message about debt only: no branch of _determine_agent_routing matches
\* it, and the list still holds the analysis agent and the memory agent
C23_Witness ==
    /\ Decided
    /\ intent_message = {"mortgage"}
    /\ classification.intent = "debt_management"
    /\ agents_to_invoke = <<"financial_analysis_agent", "context_memory_agent">>

\* the agents of the routing decision, as the fallback workflow invokes them:
\* every name of agents_to_run that _get_agent_by_name knows, once, in order
FallbackInvokes(analysis) ==
    SelectSeq(analysis.agents_to_run, LAMBDA n : GetAgentByName(n) # "None")

\* C24: when the graph workflow has run for a routing decision it has invoked
\* exactly the agents of the decision's agent list, each once: the agents the
\* fallback workflow invokes for the same decision.
C24_GraphInvokesTheRoutedAgents ==
    (Routed /\ graph_node = "END")
        => /\ {graph_results[k] : k \in 1..Len(graph_results)}
                = {FallbackInvokes(route_analysis)[k] :
                       k \in 1..Len(FallbackInvokes(route_analysis))}
           /\ Len(graph_results) = Len(FallbackInvokes(route_analysis))

\* C30: for every resilient agent error_count never exceeds call_count, so
\* that the error rate error_count / call_count of get_health_metrics lies
\* between 0 and 1.
C30_ErrorCountAtMostCallCount ==
    \A u \in Units :
        /\ agent[u].error_count <= agent[u].call_count
        /\ agent[u].error_count >= 0

\* C29: a context that get_user_context returns without force_refresh was
\* built from the data sources less than context_ttl_seconds before the call;
\* with force_refresh the returned context has been built by the call itself.
C29_ReturnedContextIsFresh ==
    returned.context.cached
        => IF returned.force_refresh
           THEN returned.context.built_at = returned.at
           ELSE returned.at - returned.context.built_at < ContextTtl

\* the step is the start of an attempt in slot s: _execute_core_logic is
\* entered and _check_circuit_breaker runs
AttemptBeginsIn(s) ==
    \/ rcalls'[s].id # rcalls[s].id
    \/ rcalls[s].st = "backoff" /\ rcalls'[s].st # "backoff"

\* the breaker is open and the last recorded failure is less than
\* recovery_timeout seconds ago
OpenAndCooling ==
    /\ circuit_breaker.state = "open"
    /\ ElapsedSeconds(idle) < recovery_timeout

\* C25: an attempt that begins while the breaker is open and less than
\* recovery_timeout has passed since the last recorded failure does none of
\* the work: it is blocked, the call is not retried and ends with the fallback
\* result, and the breaker stays as it is.
C25_OpenBreakerBlocksTheCall ==
    [][\A s \in Slots :
          (OpenAndCooling /\ AttemptBeginsIn(s))
              => /\ rcalls'[s].st = "done"
                 /\ rcalls'[s].blocked
                 /\ rcalls'[s].result = "fallback"
                 /\ rcalls'[s].works
                       = (IF rcalls[s].st = "backoff" THEN rcalls[s].works ELSE 0)
                 /\ circuit_breaker' = circuit_breaker]_vars

\* a retry of a call that had timed out is blocked by the breaker that has
\* opened in the meantime
C25_Witness ==
    /\ OpenAndCooling
    /\ \E s \in Slots :
          /\ rcalls[s].st = "done"
          /\ rcalls[s].blocked
          /\ rcalls[s].attempt = 1
          /\ rcalls[s].result = "fallback"

\* C26: the breaker is open or half_open only with failure_count at least
\* failure_threshold, and a step that takes it out of closed is the recorded
\* failure that brings failure_count to failure_threshold.
C26_OpensOnlyAtTheThreshold ==
    /\ [](circuit_breaker.state \in {"open", "half_open"}
              => circuit_breaker.failure_count >= failure_threshold)
    /\ [][(circuit_breaker.state = "closed" /\ circuit_breaker'.state # "closed")
              => /\ circuit_breaker'.state = "open"
                 /\ circuit_breaker'.failure_count = circuit_breaker.failure_count + 1
                 /\ circuit_breaker'.failure_count = failure_threshold]_vars

\* the fifth recorded failure has just opened the breaker
C26_Witness ==
    /\ circuit_breaker.state = "open"
    /\ circuit_breaker.failure_count = failure_threshold
    /\ idle = [days |-> 0, ticks |-> 0]
    /\ \E s \in Slots :
          /\ rcalls[s].st = "done"
          /\ rcalls[s].works = 1
          /\ rcalls[s].result = "fallback"

\* C27: an open breaker changes state only to half_open, and does so on an
\* attempt that begins recovery_timeout or more after the last recorded
\* failure; a success in half_open closes the breaker and sets failure_count to
\* 0, a recorded failure in half_open opens it again.
C27_OpenBreakerRecovers ==
    [][/\ (circuit_breaker.state = "open" /\ circuit_breaker'.state # "open")
              => circuit_breaker'.state = "half_open"
       /\ (/\ circuit_breaker.state = "open"
           /\ ElapsedSeconds(idle) >= recovery_timeout
           /\ \E s \in Slots : AttemptBeginsIn(s))
              => circuit_breaker'.state = "half_open"
       /\ (/\ circuit_breaker.state = "half_open"
           /\ \E s \in Slots : rcalls[s].st = "working" /\ rcalls'[s].result = "ok")
              => /\ circuit_breaker'.state = "closed"
                 /\ circuit_breaker'.failure_count = 0
       /\ (/\ circuit_breaker.state = "half_open"
           /\ circuit_breaker'.failure_count > circuit_breaker.failure_count)
              => circuit_breaker'.state = "open"]_vars

Returned(outcome) == {r \in Requests : /\ requests[r].pc = "returned"
                                       /\ outcome[r]}

Submitted == {r \in Requests : requests[r].pc # "new"}

\* C28: when every submitted request has returned, total_requests is the sum
\* of the three outcome counters, and each counter is the number of returned
\* requests of its outcome: compiled without failed agents, compiled with
\* failed agents, emergency response.
C28_EveryRequestCountedOnce ==
    (\A r \in Submitted : requests[r].pc = "returned")
        => /\ execution_metrics.total_requests
                 = execution_metrics.successful_requests
                   + execution_metrics.partial_failures
                   + execution_metrics.total_failures
           /\ execution_metrics.total_requests = Cardinality(Submitted)
           /\ execution_metrics.successful_requests
                 = Cardinality(Returned([r \in Requests |->
                       requests[r].response = "compiled" /\ requests[r].failed_agents = {}]))
           /\ execution_metrics.partial_failures
                 = Cardinality(Returned([r \in Requests |->
                       requests[r].response = "compiled" /\ requests[r].failed_agents # {}]))
           /\ execution_metrics.total_failures
                 = Cardinality(Returned([r \in Requests |->
                       requests[r].response = "emergency"]))

\* every request has been submitted and has returned, with all three
\* outcomes among them
C28_Witness ==
    /\ Submitted = Requests
    /\ \A r \in Requests : requests[r].pc = "returned"
    /\ execution_metrics.successful_requests = 1
    /\ execution_metrics.partial_failures = 1
    /\ execution_metrics.total_failures = MaxRequests - 2

====
